---- MODULE Spec2Model ----
(***************************************************************************)
(* Model of .github/scripts/match-rules.py: the glob-to-regex compiler,    *)
(* the frontmatter extractor, the rule matcher and the output framing of   *)
(* main.                                                                   *)
(*                                                                         *)
(* Text is modelled as a sequence of one-character strings, so that        *)
(* str.split, str.strip, str.join, the regular expression that             *)
(* glob_to_regex emits and the matching done by re.match are all computed  *)
(* character by character.                                                 *)
(*                                                                         *)
(* Path strings are lines of the changed-file list (main, line 150), so    *)
(* they never contain a newline.  The regular-expression semantics below   *)
(* keep Python's treatment of the newline ("." rejects it, "$" also        *)
(* matches before a final one) although no path can exercise it.           *)
(***************************************************************************)
EXTENDS Integers, Sequences, FiniteSets, TLC

\* ------------------------------------------------------------------------
\* Bounds of the model
\* ------------------------------------------------------------------------
MaxPatLen == 4
MaxFileLen == 5
MaxLines == 5
MaxItemLen == 4
MaxChanged == 2

\* ------------------------------------------------------------------------
\* Characters and generic text helpers
\* ------------------------------------------------------------------------
NL == "\n"
BS == "\\"
DQ == "\""
SQ == "'"
SP == " "

RECURSIVE StrsUpTo(_, _)
StrsUpTo(chars, n) ==
  IF n = 0 THEN {<<>>}
  ELSE LET shorter == StrsUpTo(chars, n - 1)
       IN  shorter \cup {Append(s, c) : s \in shorter, c \in chars}

\* characters the model draws glob patterns and candidate paths from
PatChars == {"a", ".", "/", "*", "?"}
FileChars == {"a", ".", "/"}
Patterns == StrsUpTo(PatChars, MaxPatLen)
Files == StrsUpTo(FileChars, MaxFileLen)

\* ------------------------------------------------------------------------
\* glob_to_regex (lines 18-59)
\* ------------------------------------------------------------------------
\* the characters of r".+^${}()|\\[]"
RegexSpecial == {".", "+", "^", "$", "{", "}", "(", ")", "|", BS, "[", "]"}

\* the three fragments the compiler appends for wildcards
DirsFragment == <<"(", "?", ":", ".", "+", "/", ")", "?">>
AnyFragment == <<".", "*">>
SegFragment == <<"[", "^", "/", "]", "*">>
OneFragment == <<"[", "^", "/", "]">>

\* GlobStep without the escaping branch of lines 52-54
GlobStep_NoEscape(pattern, i) ==
  LET n == Len(pattern)
      c == pattern[i]
  IN  IF c = "*"
      THEN IF i + 1 <= n /\ pattern[i + 1] = "*"
           THEN IF i + 2 <= n /\ pattern[i + 2] = "/"
                THEN [frag |-> DirsFragment, adv |-> 3]
                ELSE [frag |-> AnyFragment, adv |-> 2]
           ELSE [frag |-> SegFragment, adv |-> 1]
      ELSE IF c = "?"
      THEN [frag |-> OneFragment, adv |-> 1]
      ELSE [frag |-> <<c>>, adv |-> 1]

\* GlobStep without the "**" lookahead of line 35: every "*" is a single one
GlobStep_NoDoubleStar(pattern, i) ==
  LET c == pattern[i]
  IN  IF c = "*"
      THEN [frag |-> SegFragment, adv |-> 1]
      ELSE IF c = "?"
      THEN [frag |-> OneFragment, adv |-> 1]
      ELSE IF c \in RegexSpecial
      THEN [frag |-> <<BS, c>>, adv |-> 1]
      ELSE [frag |-> <<c>>, adv |-> 1]

\* GlobStep without the "**/" lookahead of line 37
GlobStep_NoDirs(pattern, i) ==
  LET n == Len(pattern)
      c == pattern[i]
  IN  IF c = "*"
      THEN IF i + 1 <= n /\ pattern[i + 1] = "*"
           THEN [frag |-> AnyFragment, adv |-> 2]
           ELSE [frag |-> SegFragment, adv |-> 1]
      ELSE IF c = "?"
      THEN [frag |-> OneFragment, adv |-> 1]
      ELSE IF c \in RegexSpecial
      THEN [frag |-> <<BS, c>>, adv |-> 1]
      ELSE [frag |-> <<c>>, adv |-> 1]

\* GlobStep with ".*" appended for a single "*" at line 47
GlobStep_StarAny(pattern, i) ==
  LET n == Len(pattern)
      c == pattern[i]
  IN  IF c = "*"
      THEN IF i + 1 <= n /\ pattern[i + 1] = "*"
           THEN IF i + 2 <= n /\ pattern[i + 2] = "/"
                THEN [frag |-> DirsFragment, adv |-> 3]
                ELSE [frag |-> AnyFragment, adv |-> 2]
           ELSE [frag |-> AnyFragment, adv |-> 1]
      ELSE IF c = "?"
      THEN [frag |-> OneFragment, adv |-> 1]
      ELSE IF c \in RegexSpecial
      THEN [frag |-> <<BS, c>>, adv |-> 1]
      ELSE [frag |-> <<c>>, adv |-> 1]

\* one iteration of the while loop at 1-based index i: the appended
\* fragment and the number of pattern characters consumed
GlobStep(pattern, i) ==
  LET n == Len(pattern)
      c == pattern[i]
  IN  IF c = "*"
      THEN IF i + 1 <= n /\ pattern[i + 1] = "*"
           THEN IF i + 2 <= n /\ pattern[i + 2] = "/"
                THEN [frag |-> DirsFragment, adv |-> 3]
                ELSE [frag |-> AnyFragment, adv |-> 2]
           ELSE [frag |-> SegFragment, adv |-> 1]
      ELSE IF c = "?"
      THEN [frag |-> OneFragment, adv |-> 1]
      ELSE IF c \in RegexSpecial
      THEN [frag |-> <<BS, c>>, adv |-> 1]
      ELSE [frag |-> <<c>>, adv |-> 1]

RECURSIVE GlobLoop(_, _)
GlobLoop(pattern, i) ==
  IF i > Len(pattern) THEN <<>>
  ELSE LET st == GlobStep(pattern, i)
       IN  st.frag \o GlobLoop(pattern, i + st.adv)

glob_to_regex(pattern) == <<"^">> \o GlobLoop(pattern, 1) \o <<"$">>

\* ------------------------------------------------------------------------
\* re.compile / compiled.match (lines 126-128), for the regular expressions
\* a glob compiler of this shape can emit
\* ------------------------------------------------------------------------
HasAt(r, k, frag) ==
  /\ k + Len(frag) - 1 <= Len(r)
  /\ SubSeq(r, k, k + Len(frag) - 1) = frag

\* the regular expression r read from index k as a sequence of atoms
RECURSIVE ReAtoms(_, _)
ReAtoms(r, k) ==
  IF k > Len(r) THEN <<>>
  ELSE IF r[k] = "^" THEN <<[t |-> "bol"]>> \o ReAtoms(r, k + 1)
  ELSE IF r[k] = "$" THEN <<[t |-> "eol"]>> \o ReAtoms(r, k + 1)
  ELSE IF HasAt(r, k, DirsFragment)
       THEN <<[t |-> "dirs"]>> \o ReAtoms(r, k + Len(DirsFragment))
  ELSE IF HasAt(r, k, SegFragment)
       THEN <<[t |-> "segstar"]>> \o ReAtoms(r, k + Len(SegFragment))
  ELSE IF HasAt(r, k, OneFragment)
       THEN <<[t |-> "segone"]>> \o ReAtoms(r, k + Len(OneFragment))
  ELSE IF HasAt(r, k, AnyFragment)
       THEN <<[t |-> "dotstar"]>> \o ReAtoms(r, k + Len(AnyFragment))
  ELSE IF r[k] = "." THEN <<[t |-> "dot"]>> \o ReAtoms(r, k + 1)
  ELSE IF r[k] = BS /\ k + 1 <= Len(r)
       THEN <<[t |-> "lit", c |-> r[k + 1]]>> \o ReAtoms(r, k + 2)
  ELSE <<[t |-> "lit", c |-> r[k]]>> \o ReAtoms(r, k + 1)

\* every character of f in positions lo..hi satisfies "is not ch"
NoneIs(f, lo, hi, ch) == \A q \in lo..hi : f[q] # ch

\* atoms[j..] match f starting after `pos` consumed characters
RECURSIVE ReMatchFrom(_, _, _, _)
ReMatchFrom(atoms, j, f, pos) ==
  IF j > Len(atoms) THEN TRUE
  ELSE LET a == atoms[j]
           n == Len(f)
       IN  CASE a.t = "bol" -> pos = 0 /\ ReMatchFrom(atoms, j + 1, f, pos)
             [] a.t = "eol" ->
                  /\ \/ pos = n
                     \/ pos = n - 1 /\ f[n] = NL
                  /\ ReMatchFrom(atoms, j + 1, f, pos)
             [] a.t = "lit" ->
                  /\ pos < n
                  /\ f[pos + 1] = a.c
                  /\ ReMatchFrom(atoms, j + 1, f, pos + 1)
             [] a.t = "dot" ->
                  /\ pos < n
                  /\ f[pos + 1] # NL
                  /\ ReMatchFrom(atoms, j + 1, f, pos + 1)
             [] a.t = "segone" ->
                  /\ pos < n
                  /\ f[pos + 1] # "/"
                  /\ ReMatchFrom(atoms, j + 1, f, pos + 1)
             [] a.t = "segstar" ->
                  \E k \in pos..n :
                     /\ NoneIs(f, pos + 1, k, "/")
                     /\ ReMatchFrom(atoms, j + 1, f, k)
             [] a.t = "dotstar" ->
                  \E k \in pos..n :
                     /\ NoneIs(f, pos + 1, k, NL)
                     /\ ReMatchFrom(atoms, j + 1, f, k)
             [] a.t = "dirs" ->
                  \/ ReMatchFrom(atoms, j + 1, f, pos)
                  \/ \E k \in (pos + 1)..(n - 1) :
                        /\ NoneIs(f, pos + 1, k, NL)
                        /\ f[k + 1] = "/"
                        /\ ReMatchFrom(atoms, j + 1, f, k + 1)

\* re.compile(regex).match(f) is not None
ReMatch(regex, f) == ReMatchFrom(ReAtoms(regex, 1), 1, f, 0)

\* ------------------------------------------------------------------------
\* str.split, str.join, str.strip, str.startswith
\* ------------------------------------------------------------------------
\* characters removed by str.strip() without argument
Whitespace == {SP, "\t", "\r", NL}

\* s.split(sep) for a one-character separator
RECURSIVE SplitFrom(_, _, _, _)
SplitFrom(s, sep, k, cur) ==
  IF k > Len(s) THEN <<cur>>
  ELSE IF s[k] = sep THEN <<cur>> \o SplitFrom(s, sep, k + 1, <<>>)
  ELSE SplitFrom(s, sep, k + 1, Append(cur, s[k]))

Split(s, sep) == SplitFrom(s, sep, 1, <<>>)

\* sep.join(parts)
RECURSIVE Join(_, _)
Join(parts, sep) ==
  IF parts = <<>> THEN <<>>
  ELSE IF Len(parts) = 1 THEN parts[1]
  ELSE parts[1] \o <<sep>> \o Join(Tail(parts), sep)

\* s.lstrip(chars), s.rstrip(chars), s.strip(chars): every leading
\* (trailing) character that is in chars is removed
RECURSIVE LStripChars(_, _)
LStripChars(s, chars) ==
  IF s # <<>> /\ s[1] \in chars THEN LStripChars(Tail(s), chars) ELSE s

RECURSIVE RStripChars(_, _)
RStripChars(s, chars) ==
  IF s # <<>> /\ s[Len(s)] \in chars
  THEN RStripChars(SubSeq(s, 1, Len(s) - 1), chars)
  ELSE s

StripChars(s, chars) == RStripChars(LStripChars(s, chars), chars)

Strip(s) == StripChars(s, Whitespace)

StartsWith(s, prefix) ==
  /\ Len(prefix) <= Len(s)
  /\ SubSeq(s, 1, Len(prefix)) = prefix

\* ------------------------------------------------------------------------
\* parse_frontmatter_paths (lines 62-91)
\* ------------------------------------------------------------------------
Delimiter == <<"-", "-", "-">>
PathsKey == <<"p", "a", "t", "h", "s", ":">>
ItemMarker == <<"-", SP>>

\* ItemPattern removing one quote character at each end only
ItemPattern_OneLayer(stripped) ==
  LET s == Strip(SubSeq(stripped, 3, Len(stripped)))
      s1 == IF s # <<>> /\ s[1] \in {DQ, SQ} THEN Tail(s) ELSE s
  IN  IF s1 # <<>> /\ s1[Len(s1)] \in {DQ, SQ}
      THEN SubSeq(s1, 1, Len(s1) - 1)
      ELSE s1

\* line 86: stripped[2:].strip().strip('"').strip("'")
ItemPattern(stripped) ==
  StripChars(StripChars(Strip(SubSeq(stripped, 3, Len(stripped))), {DQ}), {SQ})

\* the branch the loop body (lines 79-89) takes on one line
LineBranch(in_paths, line) ==
  LET stripped == Strip(line)
  IN  IF stripped = Delimiter THEN "close"
      ELSE IF stripped = PathsKey THEN "key"
      ELSE IF in_paths /\ StartsWith(stripped, ItemMarker) THEN "item"
      ELSE IF in_paths /\ stripped # <<>> /\ ~StartsWith(stripped, ItemMarker)
      THEN "end"
      ELSE "skip"

\* ParseLine whose line 89 leaves collecting mode instead of the loop
ParseLine_Reentry(st, line) ==
  LET b == LineBranch(st.in_paths, line)
  IN  CASE b = "close" -> [st EXCEPT !.stop = TRUE]
        [] b = "key" -> [st EXCEPT !.in_paths = TRUE]
        [] b = "item" ->
             [st EXCEPT !.paths = Append(@, ItemPattern(Strip(line)))]
        [] b = "end" -> [st EXCEPT !.in_paths = FALSE]
        [] OTHER -> st

\* ParseLine without the break of lines 80-81 at the closing delimiter
ParseLine_NoClose(st, line) ==
  LET b == LineBranch(st.in_paths, line)
  IN  CASE b = "close" -> st
        [] b = "key" -> [st EXCEPT !.in_paths = TRUE]
        [] b = "item" ->
             [st EXCEPT !.paths = Append(@, ItemPattern(Strip(line)))]
        [] b = "end" -> [st EXCEPT !.stop = TRUE]
        [] OTHER -> st

\* the loop body applied to the loop state st = [in_paths, paths, stop]
ParseLine(st, line) ==
  LET b == LineBranch(st.in_paths, line)
  IN  CASE b = "close" -> [st EXCEPT !.stop = TRUE]
        [] b = "key" -> [st EXCEPT !.in_paths = TRUE]
        [] b = "item" ->
             [st EXCEPT !.paths = Append(@, ItemPattern(Strip(line)))]
        [] b = "end" -> [st EXCEPT !.stop = TRUE]
        [] OTHER -> st

RECURSIVE ParseLoop(_, _, _)
ParseLoop(lines, k, st) ==
  IF k > Len(lines) \/ st.stop THEN st.paths
  ELSE ParseLoop(lines, k + 1, ParseLine(st, lines[k]))

ParseStart == [in_paths |-> FALSE, paths |-> <<>>, stop |-> FALSE]

parse_frontmatter_paths(content) ==
  LET lines == Split(content, NL)
  IN  IF Strip(lines[1]) # Delimiter THEN <<>>
      ELSE ParseLoop(lines, 2, ParseStart)

\* ------------------------------------------------------------------------
\* strip_frontmatter (lines 94-104)
\* ------------------------------------------------------------------------
\* StripLoop without the lstrip("\n") of line 102
RECURSIVE StripLoop_NoLstrip(_, _, _)
StripLoop_NoLstrip(content, lines, k) ==
  IF k > Len(lines) THEN content
  ELSE IF Strip(lines[k]) = Delimiter
       THEN Join(SubSeq(lines, k + 1, Len(lines)), NL)
       ELSE StripLoop_NoLstrip(content, lines, k + 1)

\* the loop of lines 100-102 from 1-based line index k
RECURSIVE StripLoop(_, _, _)
StripLoop(content, lines, k) ==
  IF k > Len(lines) THEN content
  ELSE IF Strip(lines[k]) = Delimiter
       THEN LStripChars(Join(SubSeq(lines, k + 1, Len(lines)), NL), {NL})
       ELSE StripLoop(content, lines, k + 1)

strip_frontmatter(content) ==
  LET lines == Split(content, NL)
  IN  IF Strip(lines[1]) # Delimiter THEN content
      ELSE StripLoop(content, lines, 2)

\* ------------------------------------------------------------------------
\* match_rules (lines 107-138)
\* ------------------------------------------------------------------------
\* code points of the characters of rule file names
Ord == [c \in {".", "a", "b", "d", "m", "t", "x"} |->
          CASE c = "." -> 46
            [] c = "a" -> 97
            [] c = "b" -> 98
            [] c = "d" -> 100
            [] c = "m" -> 109
            [] c = "t" -> 116
            [] c = "x" -> 120]

\* str.__lt__ on file names
RECURSIVE StrLess(_, _)
StrLess(s, t) ==
  IF t = <<>> THEN FALSE
  ELSE IF s = <<>> THEN TRUE
  ELSE IF s[1] = t[1] THEN StrLess(Tail(s), Tail(t))
  ELSE Ord[s[1]] < Ord[t[1]]

\* sorted(names)
RECURSIVE Sorted(_)
Sorted(names) ==
  IF names = {} THEN <<>>
  ELSE LET least == CHOOSE n \in names :
                      \A o \in names \ {n} : StrLess(n, o)
       IN  <<least>> \o Sorted(names \ {least})

MdSuffix == <<".", "m", "d">>

\* rules_dir.glob("*.md") over the names of the directory
GlobMd(names) ==
  {n \in names :
     /\ Len(n) >= Len(MdSuffix)
     /\ SubSeq(n, Len(n) - Len(MdSuffix) + 1, Len(n)) = MdSuffix}

\* the inner loop of lines 127-130 from file index k: some file from
\* changed_files[k..] matches the compiled pattern
RECURSIVE FileLoop(_, _, _)
FileLoop(regex, changed, k) ==
  IF k > Len(changed) THEN FALSE
  ELSE IF ReMatch(regex, changed[k]) THEN TRUE
  ELSE FileLoop(regex, changed, k + 1)

\* PatternLoop that tries the first pattern only
PatternLoop_FirstOnly(paths, changed, k) ==
  /\ k <= Len(paths)
  /\ FileLoop(glob_to_regex(paths[k]), changed, 1)

\* the outer loop of lines 125-132 from pattern index k: rule_matched
RECURSIVE PatternLoop(_, _, _)
PatternLoop(paths, changed, k) ==
  IF k > Len(paths) THEN FALSE
  ELSE IF FileLoop(glob_to_regex(paths[k]), changed, 1) THEN TRUE
  ELSE PatternLoop(paths, changed, k + 1)

\* ------------------------------------------------------------------------
\* main (lines 141-172)
\* ------------------------------------------------------------------------
\* line 150: [line.strip() for line in f if line.strip()]
RECURSIVE StrippedNonBlank(_)
StrippedNonBlank(rawLines) ==
  IF rawLines = <<>> THEN <<>>
  ELSE (IF Strip(rawLines[1]) # <<>> THEN <<Strip(rawLines[1])>> ELSE <<>>)
         \o StrippedNonBlank(Tail(rawLines))

\* the printed line "<!-- no-matching-rules -->"
Sentinel == [kind |-> "sentinel"]

\* lines 164-165 and 169-172: the bullets, then heading and body per match
RECURSIVE Bullets(_)
Bullets(matched) ==
  IF matched = <<>> THEN <<>>
  ELSE <<[kind |-> "bullet", path |-> matched[1].path]>>
         \o Bullets(Tail(matched))

RECURSIVE Bodies(_)
Bodies(matched) ==
  IF matched = <<>> THEN <<>>
  ELSE <<[kind |-> "heading", path |-> matched[1].path],
         [kind |-> "blank"],
         [kind |-> "body", text |-> matched[1].body],
         [kind |-> "blank"]>>
         \o Bodies(Tail(matched))

\* lines 158-172: what main prints for the list match_rules returned
Render(matched) ==
  IF matched = <<>> THEN <<Sentinel>>
  ELSE <<[kind |-> "count", n |-> Len(matched)], [kind |-> "blank"]>>
         \o Bullets(matched) \o <<[kind |-> "blank"]>> \o Bodies(matched)

\* CallsMatchRules without the early return of lines 152-154
CallsMatchRules_Always(changed) == TRUE

\* lines 152-156: whether main goes on to call match_rules
CallsMatchRules(changed) == changed # <<>>

\* ------------------------------------------------------------------------
\* State
\* ------------------------------------------------------------------------
VARIABLES
  gpattern,    \* glob_to_regex: the pattern argument
  gregex,      \* glob_to_regex: the returned regular expression
  gfile,       \* the candidate path given to compiled.match
  gaccepted,   \* whether compiled.match returned a match
  gpc,         \* "idle", or "init" -> "compiled" -> "matched"
  fcontent,    \* the text of one rule document
  flines,      \* parse_frontmatter_paths: lines
  fidx,        \* parse_frontmatter_paths: 1-based index of the loop's line
  fin_paths,   \* parse_frontmatter_paths: in_paths
  fpaths,      \* parse_frontmatter_paths: paths
  fbody,       \* the value strip_frontmatter returned
  fpc,         \* "idle", or "start" -> "scan" -> "parsed" -> "stripped"
  argv,        \* main: whether the changed-files argument was given
  input,       \* the lines of the changed-files resource, or Unreadable
  rules_dir,   \* .claude/rules: file name -> text, or Unreadable
  changed_files, \* main: changed_files
  rule_files,  \* match_rules: sorted(rules_dir.glob("*.md"))
  ri,          \* match_rules: 1-based index of rule_file in rule_files
  matched,     \* match_rules: matched
  reads,       \* the rule files read_text was called on, in order
  output,      \* the lines printed to standard output
  exit,        \* "running", "ok", "usage" (status 1) or "exception"
  mpc          \* "idle", or "start" -> "loop" -> "returned" -> "done"

gvars == <<gpattern, gregex, gfile, gaccepted, gpc>>
fvars == <<fcontent, flines, fidx, fin_paths, fpaths, fbody, fpc>>
mvars == <<argv, input, rules_dir, changed_files, rule_files, ri, matched,
           reads, output, exit, mpc>>
vars == <<gvars, fvars, mvars>>

NoText == <<"none">>

GlobIdle ==
  /\ gpattern = NoText
  /\ gregex = NoText
  /\ gfile = NoText
  /\ gaccepted = FALSE
  /\ gpc = "idle"

FrontIdle ==
  /\ fcontent = NoText
  /\ flines = <<>>
  /\ fidx = 0
  /\ fin_paths = FALSE
  /\ fpaths = <<>>
  /\ fbody = NoText
  /\ fpc = "idle"

MainIdle ==
  /\ argv = FALSE
  /\ input = <<>>
  /\ rules_dir = <<>>
  /\ changed_files = <<>>
  /\ rule_files = <<>>
  /\ ri = 0
  /\ matched = <<>>
  /\ reads = <<>>
  /\ output = <<>>
  /\ exit = "running"
  /\ mpc = "idle"

\* ------------------------------------------------------------------------
\* Specification of the pattern compiler used as in match_rules
\* ------------------------------------------------------------------------
GlobInit ==
  /\ gpattern \in Patterns
  /\ gregex = NoText
  /\ gfile = NoText
  /\ gaccepted = FALSE
  /\ gpc = "init"
  /\ FrontIdle
  /\ MainIdle

\* compiled = re.compile(glob_to_regex(pattern))
Compile ==
  /\ gpc = "init"
  /\ gregex' = glob_to_regex(gpattern)
  /\ gpc' = "compiled"
  /\ UNCHANGED <<gpattern, gfile, gaccepted, fvars, mvars>>

\* compiled.match(f) for one candidate path
MatchFile ==
  /\ gpc = "compiled"
  /\ \E f \in Files :
       /\ gfile' = f
       /\ gaccepted' = ReMatch(gregex, f)
  /\ gpc' = "matched"
  /\ UNCHANGED <<gpattern, gregex, fvars, mvars>>

GlobNext == Compile \/ MatchFile

SpecGlob == GlobInit /\ [][GlobNext]_vars

\* ------------------------------------------------------------------------
\* Specification of the frontmatter extractor: parse_frontmatter_paths run
\* line by line, then strip_frontmatter, on one rule document
\* ------------------------------------------------------------------------
\* the lines rule documents are drawn from
DocLines ==
  { Delimiter,
    <<SP>> \o Delimiter \o <<SP>>,
    PathsKey,
    <<>>,
    <<SP>>,
    <<SP, SP>> \o ItemMarker \o <<"a">>,
    ItemMarker \o <<"b">>,
    <<"x">> }

\* the item texts of the documents that vary the quoting of one item
ItemTexts == StrsUpTo({DQ, SQ, SP, "a"}, MaxItemLen)

Documents ==
  {Join(ls, NL) : ls \in StrsUpTo(DocLines, MaxLines) \ {<<>>}}
    \cup {Join(<<Delimiter, PathsKey, ItemMarker \o t, Delimiter>>, NL) :
            t \in ItemTexts}

FrontInit ==
  /\ fcontent \in Documents
  /\ flines = <<>>
  /\ fidx = 0
  /\ fin_paths = FALSE
  /\ fpaths = <<>>
  /\ fbody = NoText
  /\ fpc = "start"
  /\ GlobIdle
  /\ MainIdle

\* lines 72-74: the first line is not the delimiter
ParseNoHeader ==
  /\ fpc = "start"
  /\ Strip(Split(fcontent, NL)[1]) # Delimiter
  /\ flines' = Split(fcontent, NL)
  /\ fpaths' = <<>>
  /\ fpc' = "parsed"
  /\ UNCHANGED <<fcontent, fidx, fin_paths, fbody, gvars, mvars>>

\* lines 72-78: the first line is the delimiter, the loop starts at lines[1]
ParseHeader ==
  /\ fpc = "start"
  /\ Strip(Split(fcontent, NL)[1]) = Delimiter
  /\ flines' = Split(fcontent, NL)
  /\ fpaths' = <<>>
  /\ fin_paths' = FALSE
  /\ fidx' = 2
  /\ fpc' = "scan"
  /\ UNCHANGED <<fcontent, fbody, gvars, mvars>>

\* one iteration of the loop of lines 78-89 that takes branch b
ScanLine(b) ==
  /\ fpc = "scan"
  /\ fidx <= Len(flines)
  /\ LineBranch(fin_paths, flines[fidx]) = b
  /\ LET st == ParseLine([in_paths |-> fin_paths, paths |-> fpaths,
                          stop |-> FALSE], flines[fidx])
     IN  /\ fin_paths' = st.in_paths
         /\ fpaths' = st.paths
         /\ IF st.stop
            THEN fpc' = "parsed" /\ fidx' = fidx
            ELSE fpc' = "scan" /\ fidx' = fidx + 1
  /\ UNCHANGED <<fcontent, flines, fbody, gvars, mvars>>

ScanClose == ScanLine("close")
ScanKey == ScanLine("key")
ScanItem == ScanLine("item")
ScanEnd == ScanLine("end")
ScanSkip == ScanLine("skip")

\* the loop runs out of lines
ScanExhausted ==
  /\ fpc = "scan"
  /\ fidx > Len(flines)
  /\ fpc' = "parsed"
  /\ UNCHANGED <<fcontent, flines, fidx, fin_paths, fpaths, fbody, gvars, mvars>>

\* body = strip_frontmatter(content)
StripBody ==
  /\ fpc = "parsed"
  /\ fbody' = strip_frontmatter(fcontent)
  /\ fpc' = "stripped"
  /\ UNCHANGED <<fcontent, flines, fidx, fin_paths, fpaths, gvars, mvars>>

FrontNext ==
  \/ ParseNoHeader
  \/ ParseHeader
  \/ ScanClose
  \/ ScanKey
  \/ ScanItem
  \/ ScanEnd
  \/ ScanSkip
  \/ ScanExhausted
  \/ StripBody

SpecFront == FrontInit /\ [][FrontNext]_vars

\* ------------------------------------------------------------------------
\* Specification of main with match_rules: one run of the script on a
\* changed-files resource and a rules directory
\* ------------------------------------------------------------------------
\* a text that cannot be read (open or read_text raises)
Unreadable == <<"unreadable">>
UnreadableInput == <<Unreadable>>

\* the rule documents the directory is filled from
DocOnePattern ==
  Join(<<Delimiter, PathsKey,
         ItemMarker \o <<DQ, "a", "/", "*", DQ>>,
         Delimiter, <<>>, <<"x">>>>, NL)
DocTwoPatterns ==
  Join(<<Delimiter, PathsKey,
         ItemMarker \o <<"b">>,
         ItemMarker \o <<"*", ".", "a">>,
         Delimiter, <<"x">>>>, NL)
DocUnclosed ==
  Join(<<Delimiter, PathsKey, ItemMarker \o <<"*", "*", "/", "a">>>>, NL)
DocNoKey == Join(<<Delimiter, <<"x">>, Delimiter, <<"x">>>>, NL)
DocNoHeader == <<"x">>

RuleTexts ==
  {DocOnePattern, DocTwoPatterns, DocUnclosed, DocNoKey, DocNoHeader}

MdNames ==
  { <<"a", ".", "m", "d">>,
    <<"a", "b", ".", "m", "d">>,
    <<"b", ".", "m", "d">> }
OtherNames == { <<"a", ".", "t", "x", "t">> }

MdDirs == UNION {[S -> RuleTexts \cup {Unreadable}] : S \in SUBSET MdNames}
OtherDirs == UNION {[S -> {DocOnePattern}] : S \in SUBSET OtherNames}
Dirs == {md @@ other : md \in MdDirs, other \in OtherDirs}

\* the lines the changed-files resource is made of
RawLines ==
  { <<>>,
    <<SP>>,
    <<"a", "/", "a">>,
    <<SP, "b", SP>>,
    <<"x", ".", "a">> }

Inputs == StrsUpTo(RawLines, MaxChanged) \cup {UnreadableInput}

MainInit ==
  /\ \/ /\ argv = FALSE
        /\ input = <<>>
        /\ rules_dir = <<>>
     \/ /\ argv = TRUE
        /\ input \in Inputs
        /\ rules_dir \in Dirs
  /\ changed_files = <<>>
  /\ rule_files = <<>>
  /\ ri = 0
  /\ matched = <<>>
  /\ reads = <<>>
  /\ output = <<>>
  /\ exit = "running"
  /\ mpc = "start"
  /\ GlobIdle
  /\ FrontIdle

\* lines 142-144: no argument, usage message on stderr, exit status 1
MainUsage ==
  /\ mpc = "start"
  /\ ~argv
  /\ exit' = "usage"
  /\ mpc' = "done"
  /\ UNCHANGED <<argv, input, rules_dir, changed_files, rule_files, ri,
                 matched, reads, output, gvars, fvars>>

\* line 149: the changed-files resource cannot be opened
MainInputError ==
  /\ mpc = "start"
  /\ argv
  /\ input = UnreadableInput
  /\ exit' = "exception"
  /\ mpc' = "done"
  /\ UNCHANGED <<argv, input, rules_dir, changed_files, rule_files, ri,
                 matched, reads, output, gvars, fvars>>

\* lines 149-154: no changed file, the sentinel is printed
MainNoChanges ==
  /\ mpc = "start"
  /\ argv
  /\ input # UnreadableInput
  /\ ~CallsMatchRules(StrippedNonBlank(input))
  /\ changed_files' = StrippedNonBlank(input)
  /\ output' = <<Sentinel>>
  /\ exit' = "ok"
  /\ mpc' = "done"
  /\ UNCHANGED <<argv, input, rules_dir, rule_files, ri, matched, reads,
                 gvars, fvars>>

\* lines 149-156 and 114-116: match_rules is called and lists the directory
MainCallMatchRules ==
  /\ mpc = "start"
  /\ argv
  /\ input # UnreadableInput
  /\ CallsMatchRules(StrippedNonBlank(input))
  /\ changed_files' = StrippedNonBlank(input)
  /\ rule_files' = Sorted(GlobMd(DOMAIN rules_dir))
  /\ ri' = 1
  /\ matched' = <<>>
  /\ mpc' = "loop"
  /\ UNCHANGED <<argv, input, rules_dir, reads, output, exit, gvars, fvars>>

\* line 117: read_text raises, the exception ends the run
RuleReadError ==
  /\ mpc = "loop"
  /\ ri <= Len(rule_files)
  /\ rules_dir[rule_files[ri]] = Unreadable
  /\ reads' = Append(reads, rule_files[ri])
  /\ exit' = "exception"
  /\ mpc' = "done"
  /\ UNCHANGED <<argv, input, rules_dir, changed_files, rule_files, ri,
                 matched, output, gvars, fvars>>

\* lines 117-121: the document declares no pattern
RuleNoPaths ==
  /\ mpc = "loop"
  /\ ri <= Len(rule_files)
  /\ rules_dir[rule_files[ri]] # Unreadable
  /\ parse_frontmatter_paths(rules_dir[rule_files[ri]]) = <<>>
  /\ reads' = Append(reads, rule_files[ri])
  /\ ri' = ri + 1
  /\ UNCHANGED <<argv, input, rules_dir, changed_files, rule_files, matched,
                 output, exit, mpc, gvars, fvars>>

\* lines 117-134: no pattern of the document matches a changed file
RuleNotMatched ==
  /\ mpc = "loop"
  /\ ri <= Len(rule_files)
  /\ rules_dir[rule_files[ri]] # Unreadable
  /\ LET paths == parse_frontmatter_paths(rules_dir[rule_files[ri]])
     IN  /\ paths # <<>>
         /\ ~PatternLoop(paths, changed_files, 1)
  /\ reads' = Append(reads, rule_files[ri])
  /\ ri' = ri + 1
  /\ UNCHANGED <<argv, input, rules_dir, changed_files, rule_files, matched,
                 output, exit, mpc, gvars, fvars>>

\* lines 117-136: a pattern matches, the pair is appended
RuleMatched ==
  /\ mpc = "loop"
  /\ ri <= Len(rule_files)
  /\ rules_dir[rule_files[ri]] # Unreadable
  /\ LET paths == parse_frontmatter_paths(rules_dir[rule_files[ri]])
     IN  /\ paths # <<>>
         /\ PatternLoop(paths, changed_files, 1)
  /\ matched' = Append(matched,
                       [path |-> rule_files[ri],
                        body |-> strip_frontmatter(rules_dir[rule_files[ri]])])
  /\ reads' = Append(reads, rule_files[ri])
  /\ ri' = ri + 1
  /\ UNCHANGED <<argv, input, rules_dir, changed_files, rule_files, output,
                 exit, mpc, gvars, fvars>>

\* line 138: return matched
MatchRulesReturn ==
  /\ mpc = "loop"
  /\ ri > Len(rule_files)
  /\ mpc' = "returned"
  /\ UNCHANGED <<argv, input, rules_dir, changed_files, rule_files, ri,
                 matched, reads, output, exit, gvars, fvars>>

\* lines 158-172: the sentinel, or the count, the bullets and the bodies
MainReport ==
  /\ mpc = "returned"
  /\ output' = Render(matched)
  /\ exit' = "ok"
  /\ mpc' = "done"
  /\ UNCHANGED <<argv, input, rules_dir, changed_files, rule_files, ri,
                 matched, reads, gvars, fvars>>

MainNext ==
  \/ MainUsage
  \/ MainInputError
  \/ MainNoChanges
  \/ MainCallMatchRules
  \/ RuleReadError
  \/ RuleNoPaths
  \/ RuleNotMatched
  \/ RuleMatched
  \/ MatchRulesReturn
  \/ MainReport

SpecMain == MainInit /\ [][MainNext]_vars

\* ------------------------------------------------------------------------
\* Properties of the pattern compiler
\* ------------------------------------------------------------------------
WildcardFree(p) == \A q \in 1..Len(p) : p[q] \notin {"*", "?"}

EndsWith(f, s) ==
  /\ Len(s) <= Len(f)
  /\ SubSeq(f, Len(f) - Len(s) + 1, Len(f)) = s

\* the part of f in front of a suffix of length n
Front(f, n) == SubSeq(f, 1, Len(f) - n)

\* d is zero or more segments, each a non-empty run of non-separator
\* characters followed by "/"
FullSegments(d) ==
  \/ d = <<>>
  \/ /\ d[Len(d)] = "/"
     /\ d[1] # "/"
     /\ \A q \in 1..(Len(d) - 1) : ~(d[q] = "/" /\ d[q + 1] = "/")

\* C2: a pattern without "*" and "?" (the empty pattern and patterns with
\* regex-special characters included) accepts a path exactly when the path
\* equals the pattern.
C2_LiteralIsEquality ==
  (gpc = "matched" /\ WildcardFree(gpattern))
    => (gaccepted <=> gfile = gpattern)

C2_Witness ==
  /\ gpc = "matched"
  /\ gpattern = <<"a", ".">>
  /\ gfile = <<"a", ".">>
  /\ gaccepted

\* C3: the pattern "**" accepts every path, the empty one and those with
\* separators included.
C3_DoubleStarAcceptsAll ==
  (gpc = "matched" /\ gpattern = <<"*", "*">>) => gaccepted

C3_Witness ==
  /\ gpc = "matched"
  /\ gpattern = <<"*", "*">>
  /\ gfile = <<"a", "/", ".", "/", "a">>
  /\ gaccepted

\* the patterns "**/" L with L free of wildcards
IsDirsThenLiteral(p) ==
  /\ Len(p) >= 3
  /\ SubSeq(p, 1, 3) = <<"*", "*", "/">>
  /\ WildcardFree(SubSeq(p, 4, Len(p)))

LiteralOf(p) == SubSeq(p, 4, Len(p))

\* C4 as stated: "**/" L accepts exactly L preceded by zero or more full,
\* non-empty path segments.
C4_Original ==
  (gpc = "matched" /\ IsDirsThenLiteral(gpattern))
    => (gaccepted <=>
          /\ EndsWith(gfile, LiteralOf(gpattern))
          /\ FullSegments(Front(gfile, Len(LiteralOf(gpattern)))))

\* C4 amended: "**/" L accepts exactly L itself and X "/" L for every
\* non-empty X, whatever X contains (separators, empty segments, a leading
\* separator); it rejects L with a suffix and "/" L.
C4_DirsThenLiteral ==
  (gpc = "matched" /\ IsDirsThenLiteral(gpattern))
    => (gaccepted <=>
          \/ gfile = LiteralOf(gpattern)
          \/ /\ EndsWith(gfile, <<"/">> \o LiteralOf(gpattern))
             /\ Len(gfile) >= Len(LiteralOf(gpattern)) + 2)

C4_Witness ==
  /\ gpc = "matched"
  /\ gpattern = <<"*", "*", "/", "a">>
  /\ gfile = <<"a", "/", "/", "a">>
  /\ gaccepted

\* C5: "*" S with S free of wildcards accepts exactly X S where X has no
\* separator.
C5_SingleStarOneSegment ==
  (/\ gpc = "matched"
   /\ Len(gpattern) >= 1
   /\ gpattern[1] = "*"
   /\ WildcardFree(Tail(gpattern)))
    => (gaccepted <=>
          /\ EndsWith(gfile, Tail(gpattern))
          /\ \A q \in 1..(Len(gfile) - Len(gpattern) + 1) : gfile[q] # "/")

C5_Witness ==
  /\ gpc = "matched"
  /\ gpattern = <<"*", ".", "a">>
  /\ gfile = <<"a", "a", ".", "a">>
  /\ gaccepted

\* ------------------------------------------------------------------------
\* Properties of the frontmatter extractor
\* ------------------------------------------------------------------------
SetMin(S) == CHOOSE m \in S : \A o \in S : m <= o

\* the lines of the document, as lines 72 and 96 split it
DocLinesOf == flines

HasOpener == Strip(DocLinesOf[1]) = Delimiter

\* the indices of the lines after the first whose stripped text is "---"
Closers == {k \in 2..Len(DocLinesOf) : Strip(DocLinesOf[k]) = Delimiter}

\* the index of the closing line, or one past the last line without one
HeaderEnd == IF Closers = {} THEN Len(DocLinesOf) + 1 ELSE SetMin(Closers)

AfterHeader == SubSeq(DocLinesOf, HeaderEnd + 1, Len(DocLinesOf))

IsItemLine(line) == StartsWith(Strip(line), ItemMarker)

\* the item text of a list-item line: marker and surrounding whitespace
\* removed
ItemText(line) == Strip(SubSeq(Strip(line), 3, Len(Strip(line))))

IsQuote(c) == c \in {DQ, SQ}

\* at most one quote removed from the start and at most one from the end
OneLayer(s) ==
  LET s1 == IF s # <<>> /\ IsQuote(s[1]) THEN Tail(s) ELSE s
  IN  IF s1 # <<>> /\ IsQuote(s1[Len(s1)])
      THEN SubSeq(s1, 1, Len(s1) - 1)
      ELSE s1

\* inner is outer without a run of ch at its start and a run of ch at its
\* end, and no further ch can be removed from either end of inner
AllTrimmed(outer, inner, ch) ==
  \E a \in 0..Len(outer) : \E d \in 0..(Len(outer) - a) :
     /\ \A q \in 1..a : outer[q] = ch
     /\ \A q \in (Len(outer) - d + 1)..Len(outer) : outer[q] = ch
     /\ inner = SubSeq(outer, a + 1, Len(outer) - d)
     /\ \/ inner = <<>>
        \/ inner[1] # ch /\ inner[Len(inner)] # ch

\* C6 as stated: a collected pattern is the item text with at most one
\* quote removed from its start and at most one from its end.
C6_Original ==
  [][(fpc = "scan" /\ Len(fpaths') = Len(fpaths) + 1)
       => fpaths'[Len(fpaths')] = OneLayer(ItemText(flines[fidx]))]_vars

\* C6 amended: a collected pattern is the item text with every double
\* quote at its start and at its end removed and then every single quote
\* at the start and the end of the rest removed; quotes left inside after
\* these two trims stay part of the pattern.
C6_QuotesTrimmed ==
  [][(fpc = "scan" /\ Len(fpaths') = Len(fpaths) + 1)
       => \E m \in {SubSeq(ItemText(flines[fidx]), lo, hi) :
                      lo \in 1..(Len(ItemText(flines[fidx])) + 1),
                      hi \in 0..Len(ItemText(flines[fidx]))} :
             /\ AllTrimmed(ItemText(flines[fidx]), m, DQ)
             /\ AllTrimmed(m, fpaths'[Len(fpaths')], SQ)]_vars

C6_Witness ==
  /\ fpc = "parsed"
  /\ fcontent = Join(<<Delimiter, PathsKey,
                       ItemMarker \o <<DQ, SQ, "a", SQ>>, Delimiter>>, NL)
  /\ fpaths = << <<"a">> >>

RECURSIVE DropLeadingBlank(_)
DropLeadingBlank(ls) ==
  IF ls # <<>> /\ Strip(ls[1]) = <<>> THEN DropLeadingBlank(Tail(ls)) ELSE ls

RECURSIVE DropLeadingEmpty(_)
DropLeadingEmpty(ls) ==
  IF ls # <<>> /\ ls[1] = <<>> THEN DropLeadingEmpty(Tail(ls)) ELSE ls

\* C7 as stated: with an opening and a closing delimiter the body is the
\* text after the closing line without its leading blank lines (lines
\* that are empty once stripped); without an opening delimiter it is the
\* original text.
C7_Original ==
  fpc = "stripped" =>
    /\ (HasOpener /\ Closers # {})
         => fbody = Join(DropLeadingBlank(AfterHeader), NL)
    /\ ~HasOpener => fbody = fcontent

\* C7 amended: with an opening and a closing delimiter the body is the
\* text after the first closing line without its leading empty lines
\* (lines of no characters at all; a whitespace-only line is kept and ends
\* the trimming), everything after unchanged; without an opening delimiter
\* it is the original text.
C7_BodyAfterHeader ==
  fpc = "stripped" =>
    /\ (HasOpener /\ Closers # {})
         => fbody = Join(DropLeadingEmpty(AfterHeader), NL)
    /\ ~HasOpener => fbody = fcontent

C7_Witness ==
  /\ fpc = "stripped"
  /\ fcontent = Join(<<Delimiter, Delimiter, <<>>, <<SP>>, <<"x">>>>, NL)
  /\ fbody = <<SP, NL, "x">>

\* the patterns of the item lines among lines[lo..hi], in document order
RECURSIVE ItemsOf(_, _, _)
ItemsOf(lines, lo, hi) ==
  IF lo > hi THEN <<>>
  ELSE (IF IsItemLine(lines[lo])
        THEN <<ItemPattern(Strip(lines[lo]))>>
        ELSE <<>>) \o ItemsOf(lines, lo + 1, hi)

\* the mode machine of C8 over lines[k..hi]: "paths:" switches collecting
\* on, a non-empty line that is no item switches it off, items are taken
\* while it is on
RECURSIVE ModeScan(_, _, _, _)
ModeScan(lines, k, hi, collecting) ==
  IF k > hi THEN <<>>
  ELSE LET stripped == Strip(lines[k])
       IN  IF stripped = PathsKey THEN ModeScan(lines, k + 1, hi, TRUE)
           ELSE IF stripped = <<>> THEN ModeScan(lines, k + 1, hi, collecting)
           ELSE IF IsItemLine(lines[k])
           THEN (IF collecting THEN <<ItemPattern(stripped)>> ELSE <<>>)
                   \o ModeScan(lines, k + 1, hi, collecting)
           ELSE ModeScan(lines, k + 1, hi, FALSE)

\* C8 as stated: the result is what the mode machine collects over the
\* header lines, where every "paths:" line enters collecting mode.
C8_Original ==
  (fpc \in {"parsed", "stripped"} /\ HasOpener)
    => fpaths = ModeScan(DocLinesOf, 2, HeaderEnd - 1, FALSE)

\* the "paths:" lines of the header
KeyLines == {k \in 2..(HeaderEnd - 1) : Strip(DocLinesOf[k]) = PathsKey}

\* the lines after index p that end the scan: non-empty, no item, not
\* "paths:"
EndLines(p) ==
  {k \in (p + 1)..(HeaderEnd - 1) :
     /\ Strip(DocLinesOf[k]) # <<>>
     /\ ~IsItemLine(DocLinesOf[k])
     /\ Strip(DocLinesOf[k]) # PathsKey}

\* C8 amended: the result is, in document order, the items of the item
\* lines between the first "paths:" line of the header and the first later
\* line that is non-empty, no item and not "paths:" (or the closing line or
\* the end of input): that line ends the whole scan, so a later "paths:"
\* line does not enter collecting mode again; a header without "paths:"
\* gives no pattern.
C8_CollectsUnderFirstKey ==
  (fpc \in {"parsed", "stripped"} /\ HasOpener)
    => fpaths =
         IF KeyLines = {} THEN <<>>
         ELSE ItemsOf(DocLinesOf, SetMin(KeyLines) + 1,
                      SetMin(EndLines(SetMin(KeyLines)) \cup {HeaderEnd}) - 1)

C8_Witness ==
  /\ fpc = "parsed"
  /\ fcontent = Join(<<Delimiter, PathsKey, <<"x">>, PathsKey,
                       ItemMarker \o <<"b">>>>, NL)
  /\ fpaths = <<>>

\* C10: with an opening but no closing delimiter the patterns are those
\* the same header would give if it were closed at the end of input, and
\* the body is the whole original text; with a closing delimiter the scan
\* for patterns never moves past the first closing line, and the body is
\* taken from the text after that same line.
C10_UnclosedHeader ==
  /\ (fpc \in {"parsed", "stripped"} /\ HasOpener /\ Closers = {})
       => fpaths = parse_frontmatter_paths(fcontent \o <<NL>> \o Delimiter)
  /\ (fpc = "stripped" /\ HasOpener /\ Closers = {})
       => fbody = fcontent
  /\ (fpc \in {"scan", "parsed", "stripped"} /\ HasOpener /\ Closers # {})
       => fidx <= HeaderEnd
  /\ (fpc = "stripped" /\ HasOpener /\ Closers # {})
       => EndsWith(Join(AfterHeader, NL), fbody)

C10_Witness ==
  /\ fpc = "stripped"
  /\ fcontent = Join(<<Delimiter, PathsKey, ItemMarker \o <<"b">>>>, NL)
  /\ fpaths = << <<"b">> >>
  /\ fbody = fcontent

\* ------------------------------------------------------------------------
\* Properties of match_rules and main
\* ------------------------------------------------------------------------
\* the rule documents of the directory: its *.md files
RuleDocuments == {n \in DOMAIN rules_dir : EndsWith(n, MdSuffix)}

\* some declared pattern of document n accepts some changed file
DocMatches(n) ==
  /\ rules_dir[n] # Unreadable
  /\ LET paths == parse_frontmatter_paths(rules_dir[n])
     IN  \E i \in 1..Len(paths) : \E k \in 1..Len(changed_files) :
            ReMatch(glob_to_regex(paths[i]), changed_files[k])

MatchingDocuments == {n \in RuleDocuments : DocMatches(n)}

\* C1: the list match_rules returns holds exactly one pair (file name,
\* stripped body) for every rule document with a pattern that accepts a
\* changed file, none for any other document, in sorted file-name order.
C1_MatchRulesResult ==
  mpc = "returned" =>
    /\ Len(matched) = Cardinality(MatchingDocuments)
    /\ \A k \in 1..Len(matched) :
          /\ matched[k].path \in MatchingDocuments
          /\ matched[k].body = strip_frontmatter(rules_dir[matched[k].path])
          /\ \A j \in 1..(k - 1) : StrLess(matched[j].path, matched[k].path)

C1_Witness ==
  /\ mpc = "returned"
  /\ changed_files = << <<"x", ".", "a">>, <<"a", "/", "a">> >>
  /\ DOMAIN rules_dir = MdNames
  /\ rules_dir[<<"a", ".", "m", "d">>] = DocTwoPatterns
  /\ rules_dir[<<"a", "b", ".", "m", "d">>] = DocNoKey
  /\ rules_dir[<<"b", ".", "m", "d">>] = DocUnclosed
  /\ Len(matched) = 2

\* the changed-files input has no non-blank line
NoChangedFile ==
  /\ input # UnreadableInput
  /\ \A k \in 1..Len(input) : Strip(input[k]) = <<>>

\* C9: with an empty changed-file list main prints exactly the sentinel and
\* ends successfully without reading a rule document, readable or not;
\* the sentinel is also the whole output when match_rules returns an empty
\* list, and otherwise the printed count is the number of matching
\* documents.
C9_SentinelAndCount ==
  /\ (argv /\ NoChangedFile)
       => /\ reads = <<>>
          /\ rule_files = <<>>
          /\ mpc \in {"start", "done"}
          /\ mpc = "done" => (output = <<Sentinel>> /\ exit = "ok")
  /\ (mpc = "done" /\ exit = "ok" /\ matched = <<>>)
       => output = <<Sentinel>>
  /\ (mpc = "done" /\ exit = "ok" /\ matched # <<>>)
       => /\ output[1] = [kind |-> "count",
                          n |-> Cardinality(MatchingDocuments)]
          /\ \A k \in 1..Len(output) : output[k] # Sentinel

C9_Witness ==
  /\ mpc = "done"
  /\ input = << <<>>, <<SP>> >>
  /\ \E n \in RuleDocuments : rules_dir[n] = Unreadable
  /\ \E n \in RuleDocuments : rules_dir[n] = DocUnclosed
  /\ output = <<Sentinel>>
  /\ exit = "ok"

====
